---- MODULE Spec2Model ----
(***************************************************************************)
(* Model of the Bus Pirate host driver (package buspirate, the lsport      *)
(* variant with baud negotiation, src/buspirate.go lines 387-852).         *)
(*                                                                         *)
(* One caller drives one BusPirate value.  Every transport call of a       *)
(* method (Write, BlockingWrite, Drain, BlockingRead, Flush, Close, ...)   *)
(* is one step; pc is the position inside the running method and trace     *)
(* the list of transport calls the method has made so far.  The outcome    *)
(* of a transport call (bytes transferred, error) and the bytes the device *)
(* delivers are chosen nondeterministically from small sets.               *)
(***************************************************************************)
EXTENDS Integers, Sequences, FiniteSets, TLC

VARIABLES
    pc,      \* position in the running method, "idle" between calls
    op,      \* name of the running (or last) method
    args,    \* its arguments
    trace,   \* transport calls made by the running method, in order
    last,    \* outcome of the most recent transport call: kind, n, err
    ret,     \* "none" while running, then "ok" (nil error) or "err"
    buf,     \* the method's working / reply buffer
    out,     \* SpiSend's out slice, SpiWriteRead's inData
    i,       \* loop index of enterBinaryMode / SpiSend
    port,    \* the lsport.Term handle: "none", "open", "closed"
    bp,      \* TRUE when the caller holds a non-nil *BusPirate
    goos,    \* runtime.GOOS of the host
    state,   \* connection state of the data model (history variable)
    first,   \* attempt on which a read first delivered the whole "BBIO1"
    short,   \* TRUE once a read of enterBinaryMode delivered 1..4 bytes
    sweep,   \* <<duty, delta>> of the SetPWM example's loop, <<>> for any
             \* other caller
    msg,     \* the error a call returned: the method and the place of the
             \* return statement in it, <<>> when the call returned nil
    unread   \* TRUE when the device has sent, or is about to send, bytes in
             \* answer to a request of the running enterBinaryMode or
             \* SpiLeave that no read of the method takes (history variable)

vars == <<pc, op, args, trace, last, ret, buf, out, i, port, bp, goos,
          state, first, short, sweep, msg, unread>>

----------------------------------------------------------------------------
(* Bounds of the model *)

\* duties are the rationals num / DutyDen with DutyDen = 10 * 2^DutyBits and
\* num in -DutyDen .. 2 * DutyDen: the tenths and their binary fractions
DutyBits == 2

\* length of the short payloads of SpiSend and SpiWriteRead that are explored
SmallLen == 2

----------------------------------------------------------------------------
(* Program constants *)

MaxAttempts == 30
BulkMax == 16
WriteReadMax == 4096
PRy == 15999

resetBitbangMode == 0
spiRawMode == 1
spiCSState == 2
spiBulkTransferMode == 16
spiPeriphCfg == 64
spiSpeedCfg == 96
spiCfg == 128
spiWriteReadCmd == 4
spiWriteReadCmdNoCS == 5

BBIO1 == <<66, 66, 73, 79, 49>>
SPI1 == <<83, 80, 73, 49>>
NL == 10

\* console lines of resetBPBaudrate, as byte strings
CmdB == <<98, 10>>
Cmd10 == <<49, 48, 10>>

----------------------------------------------------------------------------
(* Bytes and buffers *)

Pow2(k) == IF k = 0 THEN 1 ELSE 2 ^ k

Byte(x) == x % 256

Hi(x) == (x \div 256) % 256

Lo(x) == x % 256

\* b | bits, bit by bit
RECURSIVE Or(_, _)
Or(b, bits) ==
    IF b = 0 THEN bits
    ELSE IF bits = 0 THEN b
    ELSE (IF b % 2 = 1 \/ bits % 2 = 1 THEN 1 ELSE 0) + 2 * Or(b \div 2, bits \div 2)

Bit(flag, v) == IF flag THEN v ELSE 0

\* make([]byte, n)
Zeros(n) == [j \in 1..n |-> 0]

\* a read of bytes r into the front of buffer b: b[0:len(r)] = r
Overlay(b, r) == [j \in 1..Len(b) |-> IF j <= Len(r) THEN r[j] ELSE b[j]]

\* s[lo:hi] of Go, 0-based half-open
Slice(s, lo, hi) == [j \in 1..(hi - lo) |-> s[lo + j]]

----------------------------------------------------------------------------
(* The transport (package lsport): outcomes of its calls *)

\* Write / BlockingWrite of len bytes: all written, nothing written without
\* an error, nothing written with an error, all written with an error
WriteOutcomes(len) ==
    IF port # "open"
    THEN {[n |-> 0, err |-> TRUE]}
    ELSE {[n |-> 0, err |-> FALSE], [n |-> 0, err |-> TRUE]}
         \cup (IF len > 0
               THEN {[n |-> len, err |-> FALSE], [n |-> len, err |-> TRUE]}
               ELSE {})

DrainOutcomes == IF port # "open" THEN {TRUE} ELSE {FALSE, TRUE}

\* a read that delivers the bytes b, with or without an error
Rd(b, e) == [n |-> Len(b), err |-> e, got |-> b]

\* BlockingRead into a buffer of capacity cap when the device sends one of
\* the byte strings in sent: the whole string, nothing (timeout), a prefix
\* cut off by the timeout, or an error
ReadOutcomes(cap, sent) ==
    IF port # "open"
    THEN {Rd(<<>>, TRUE)}
    ELSE {Rd(<<>>, FALSE), Rd(<<>>, TRUE)}
         \cup UNION {{Rd(SubSeq(s, 1, k), FALSE) :
                         k \in {1, Len(s) - 1, Len(s)} \cap 1..cap} : s \in sent}
         \cup UNION {{Rd(SubSeq(s, 1, k), TRUE) :
                         k \in {Len(s)} \cap 1..cap} : s \in sent}

----------------------------------------------------------------------------
(* The idiom of every method: a transport call, then return on failure *)

Running(name, at) == op = name /\ pc = at

Log(e) == trace' = Append(trace, e)

Goto(next) == pc' = next /\ ret' = ret /\ msg' = msg

\* return fmt.Errorf(...) at the place at of the method
FailAt(at) == pc' = "done" /\ ret' = "err" /\ msg' = <<op, at>>

\* the one return statement of the step
Fail == FailAt(pc)

\* return nil
Succeed == pc' = "done" /\ ret' = "ok" /\ msg' = <<>>

\* return err: the error of the transport, nil when nothing was written
\* without one
WriteFail_ReturnErr(w) == IF w.err THEN Fail ELSE Succeed

\* return fmt.Errorf("error writing ..., n: %d, %v", n, err): never nil
WriteFail(w) == Fail

\* a write that is tried again when it failed
BlockingWrite_Retry(b, next) ==
    \E w \in WriteOutcomes(Len(b)) :
        /\ Log(<<"W", b>>)
        /\ last' = [k |-> "W", n |-> w.n, err |-> w.err]
        /\ IF w.n = 0 \/ w.err THEN Goto(pc) ELSE Goto(next)

\* if n, err := bp.BlockingWrite(b, 2000); n == 0 || err != nil { return error }
BlockingWrite(b, next) ==
    \E w \in WriteOutcomes(Len(b)) :
        /\ Log(<<"W", b>>)
        /\ last' = [k |-> "W", n |-> w.n, err |-> w.err]
        /\ IF w.n = 0 \/ w.err THEN WriteFail(w) ELSE Goto(next)

\* a Write whose result is not looked at
WriteIgnored(b, next) ==
    \E w \in WriteOutcomes(Len(b)) :
        /\ Log(<<"W", b>>)
        /\ last' = [k |-> "W", n |-> w.n, err |-> w.err]
        /\ Goto(next)

\* if err := bp.Drain(); err != nil { return err }
Drain(next) ==
    \E e \in DrainOutcomes :
        /\ Log(<<"D">>)
        /\ last' = [k |-> "D", n |-> 0, err |-> e]
        /\ IF e THEN Fail ELSE Goto(next)

\* the transport call of BlockingRead(b, timeout) with outcome r
BlockingRead(cap, r) ==
    /\ Log(<<"R", cap>>)
    /\ last' = [k |-> "R", n |-> r.n, err |-> r.err]

NoLast == [k |-> "none", n |-> 0, err |-> FALSE]

\* the caller starts method name with arguments a
Call(name, a, at) ==
    /\ pc = "idle"
    /\ op' = name
    /\ args' = a
    /\ pc' = at
    /\ ret' = "none"
    /\ msg' = <<>>
    /\ trace' = <<>>
    /\ last' = NoLast
    /\ buf' = <<>>
    /\ out' = <<>>
    /\ i' = 0
    /\ first' = 0
    /\ short' = FALSE
    /\ unread' = FALSE
    /\ sweep' = sweep

----------------------------------------------------------------------------
(* Open, resetBPBaudrate, enterBinaryMode *)

Bauds == {115200, 500000, 1000000, 2000000, 9600}

\* the switch without the test of the host system
Brg_AnyHost(baudrate) ==
    CASE baudrate = 500000 -> <<55, 10>>
      [] baudrate = 1000000 -> <<51, 10>>
      [] baudrate = 2000000 -> <<49, 10>>
      [] OTHER -> <<>>

\* the switch of resetBPBaudrate: the BRG console line of a baud rate,
\* <<>> when the rate is refused
Brg(baudrate) ==
    CASE baudrate = 500000 -> <<55, 10>>
      [] baudrate = 1000000 -> <<51, 10>>
      [] baudrate = 2000000 -> IF goos = "windows" THEN <<>> ELSE <<49, 10>>
      [] OTHER -> <<>>

\* the speed menu of the console, "Set serial port speed: (bps)" and its
\* ten entries, the last one "10. BRG raw value"
baudReply ==
    <<83, 101, 116, 32, 115, 101, 114, 105, 97, 108, 32, 112, 111, 114, 116,
      32, 115, 112, 101, 101, 100, 58, 32, 40, 98, 112, 115, 41, 13, 10, 32,
      49, 46, 32, 51, 48, 48, 13, 10, 32, 50, 46, 32, 49, 50, 48, 48, 13,
      10, 32, 51, 46, 32, 50, 52, 48, 48, 13, 10, 32, 52, 46, 32, 52, 56,
      48, 48, 13, 10, 32, 53, 46, 32, 57, 54, 48, 48, 13, 10, 32, 54, 46,
      32, 49, 57, 50, 48, 48, 13, 10, 32, 55, 46, 32, 51, 56, 52, 48, 48,
      13, 10, 32, 56, 46, 32, 53, 55, 54, 48, 48, 13, 10, 32, 57, 46, 32,
      49, 49, 53, 50, 48, 48, 13, 10, 49, 48, 46, 32, 66, 82, 71, 32, 114,
      97, 119, 32, 118, 97, 108, 117, 101>>

\* "10. BRG raw value"
expectBaudReply ==
    <<49, 48, 46, 32, 66, 82, 71, 32, 114, 97, 119, 32, 118, 97, 108, 117,
      101>>

\* "Enter raw value for BRG"
brgReply ==
    <<69, 110, 116, 101, 114, 32, 114, 97, 119, 32, 118, 97, 108, 117, 101,
      32, 102, 111, 114, 32, 66, 82, 71>>

\* "Adjust your terminal\r\nSpace to continue"
brgValReply ==
    <<65, 100, 106, 117, 115, 116, 32, 121, 111, 117, 114, 32, 116, 101,
      114, 109, 105, 110, 97, 108, 13, 10, 83, 112, 97, 99, 101, 32, 116,
      111, 32, 99, 111, 110, 116, 105, 110, 117, 101>>

\* "Space to continue"
expectBrgValReply ==
    <<83, 112, 97, 99, 101, 32, 116, 111, 32, 99, 111, 110, 116, 105, 110,
      117, 101>>

\* what the console may print in answer to a line: one of the three texts
\* or something else, here its prompt "HiZ>"
ConsoleTexts == {baudReply, brgReply, brgValReply, <<72, 105, 90, 62>>}

\* any text that was read is taken for the expected one
Contains_Any(text, expect) == Len(text) > 0

\* strings.Contains(text, expect)
Contains(text, expect) ==
    \E j \in 0..(Len(text) - Len(expect)) : SubSeq(text, j + 1, j + Len(expect)) = expect

\* one console reply of resetBPBaudrate: reply := make([]byte, cap),
\* BlockingRead(reply, 500), then strings.Contains(string(reply), expect);
\* a failed read and a reply without the text return different errors
ConsoleRead(cap, expect, next) ==
    \E r \in ReadOutcomes(cap, ConsoleTexts) :
        /\ BlockingRead(cap, r)
        /\ buf' = Overlay(Zeros(cap), r.got)
        /\ IF r.n = 0 \/ r.err
           THEN Fail
           ELSE IF ~Contains(buf', expect) THEN FailAt(<<pc, "invalid">>) ELSE Goto(next)

\* what the device may send in answer to a 0x00 probe
EnterSent == {BBIO1, <<120, 66, 73, 79, 49>>}

\* any reply that was read ends the loop
EnterMatched_AnyReply(r, b) == r.n # 0 /\ ~r.err

\* if n, err := bp.BlockingRead(buf, 10); n == 0 || err != nil { continue }
\* if string(buf) == "BBIO1" { return nil }
EnterMatched(r, b) == r.n # 0 /\ ~r.err /\ b = BBIO1

\* the locals no step of Open before enterBinaryMode touches
OpenFrame ==
    UNCHANGED <<op, args, buf, out, i, bp, goos, state, first, short, sweep,
                unread>>

\* three round trips with the console: a line is written and drained, the
\* reply is read into a fresh buffer and searched for the expected text
resetBPBaudrate ==
    /\ op = "Open"
    /\ \/ /\ pc = "reset"
          /\ IF Brg(args.baudrate) = <<>> THEN Fail ELSE Goto("neg_w1")
          /\ UNCHANGED <<trace, last, buf>>
       \/ pc = "neg_w1" /\ BlockingWrite(CmdB, "neg_d1") /\ buf' = buf
       \/ pc = "neg_d1" /\ Drain("neg_r1") /\ buf' = buf
       \/ pc = "neg_r1" /\ ConsoleRead(Len(baudReply) + 10, expectBaudReply, "neg_w2")
       \/ pc = "neg_w2" /\ BlockingWrite(Cmd10, "neg_d2") /\ buf' = buf
       \/ pc = "neg_d2" /\ Drain("neg_r2") /\ buf' = buf
       \/ pc = "neg_r2" /\ ConsoleRead(Len(brgReply) + 10, brgReply, "neg_w3")
       \/ pc = "neg_w3" /\ BlockingWrite(Brg(args.baudrate), "neg_d3") /\ buf' = buf
       \/ pc = "neg_d3" /\ Drain("neg_r3") /\ buf' = buf
       \/ pc = "neg_r3" /\ ConsoleRead(Len(brgValReply) + 10, expectBrgValReply, "setbaud")
    /\ port' = port
    /\ UNCHANGED <<op, args, out, i, bp, goos, state, first, short, sweep,
                   unread>>

\* ten newline bytes
Newlines_Ten == <<NL, NL, NL, NL, NL, NL, NL, NL, NL, NL>>

\* bp.Write([]byte{'\n', '\n', '\n'})
Newlines == <<NL, NL, NL>>

enterBinaryMode ==
    /\ op = "Open"
    /\ \/ /\ pc = "enter_nl"
          /\ WriteIgnored(Newlines, "enter_flush")
          /\ UNCHANGED <<buf, i, first, short, unread>>
       \/ /\ pc = "enter_flush"
          /\ Log(<<"F">>)
          /\ Goto("enter_w")
          /\ buf' = Zeros(5)
          /\ i' = 0
          \* bp.Flush(lsport.BufBoth) discards what has arrived
          /\ unread' = FALSE
          /\ UNCHANGED <<last, first, short>>
       \/ /\ pc = "enter_w"
          /\ BlockingWrite(<<0>>, "enter_d")
          /\ UNCHANGED <<buf, i, first, short, unread>>
       \/ /\ pc = "enter_d"
          /\ Drain("enter_r")
          /\ UNCHANGED <<buf, i, first, short, unread>>
       \/ /\ pc = "enter_r"
          /\ \E r \in ReadOutcomes(5, EnterSent) :
                /\ BlockingRead(5, r)
                /\ buf' = Overlay(buf, r.got)
                /\ first' = IF first = 0 /\ r = Rd(BBIO1, FALSE) THEN i + 1 ELSE first
                /\ short' = (short \/ (~r.err /\ r.n > 0 /\ r.n < 5))
                \* the rest of a reply the 10 ms cut off arrives after the
                \* read; a reply of which nothing came in the 10 ms is
                \* late or was never sent
                /\ unread' \in
                      IF ~r.err /\ r.n > 0 /\ r.n < 5 THEN {TRUE}
                      ELSE IF ~r.err /\ r.n = 0 THEN {unread, TRUE}
                      ELSE {unread}
                /\ IF EnterMatched(r, buf')
                   THEN Succeed /\ i' = i
                   ELSE /\ i' = i + 1
                        /\ IF i + 1 < MaxAttempts THEN Goto("enter_w") ELSE Fail
    \* Open: bp := BusPirate{term}; return &bp, bp.enterBinaryMode()
    /\ bp' = (pc' = "done")
    /\ state' = IF pc' = "done" /\ ret' = "ok" THEN "BinaryBitbang" ELSE state
    /\ UNCHANGED <<op, args, out, port, goos, sweep>>

\* every rate is negotiated, the default one too
Negotiates_Always(baudrate) == TRUE

\* if baudrate != 115200
Negotiates(baudrate) == baudrate # 115200

Open ==
    \/ /\ ~bp
       /\ \E b \in Bauds : Call("Open", [baudrate |-> b], "open")
       /\ UNCHANGED <<port, bp, goos, state>>
    \/ /\ Running("Open", "open")
       /\ \/ /\ Fail
             /\ port' = "none"
             /\ UNCHANGED trace
          \/ /\ Goto(IF Negotiates(args.baudrate) THEN "reset" ELSE "enter_nl")
             /\ port' = "open"
             /\ Log(<<"O", 115200>>)
       /\ UNCHANGED last
       /\ OpenFrame
    \/ resetBPBaudrate
    \/ /\ Running("Open", "setbaud")
       /\ \/ Fail /\ UNCHANGED trace
          \/ Goto("sleep") /\ Log(<<"B", args.baudrate>>)
       /\ UNCHANGED <<last, port>>
       /\ OpenFrame
    \/ /\ Running("Open", "sleep")
       /\ Log(<<"S", 10>>)
       /\ Goto("space_w")
       /\ UNCHANGED <<last, port>>
       /\ OpenFrame
    \/ /\ Running("Open", "space_w")
       /\ WriteIgnored(<<32>>, "space_r")
       /\ port' = port
       /\ OpenFrame
    \/ /\ Running("Open", "space_r")
       /\ \E r \in ReadOutcomes(20, {<<32>>}) :
             /\ BlockingRead(20, r)
             /\ Goto("enter_nl")
       /\ port' = port
       /\ OpenFrame
    \/ enterBinaryMode

----------------------------------------------------------------------------
(* The methods of BusPirate *)

\* what no method after Open changes
Frame == UNCHANGED <<op, args, bp, goos, first, short, sweep, unread>>

\* the methods with enterBinaryMode among them
Exported_WithEntry ==
    {"enterBinaryMode", "CloseTerm", "LeaveBinaryMode", "PowerOn", "PowerOff",
     "SetPWM", "SpiEnter", "SpiLeave", "SpiCS", "SpiCfgPeriph", "SpiSpeed",
     "SpiCfg", "SpiSend", "SpiWriteRead"}

\* the methods of *BusPirate a caller outside the package can name: those
\* whose name starts with a capital letter
Exported ==
    {"CloseTerm", "LeaveBinaryMode", "PowerOn", "PowerOff", "SetPWM",
     "SpiEnter", "SpiLeave", "SpiCS", "SpiCfgPeriph", "SpiSpeed", "SpiCfg",
     "SpiSend", "SpiWriteRead"}

\* the caller may call a method once Open has handed it a *BusPirate
Invoke(name, a, at) ==
    /\ bp
    /\ name \in Exported
    /\ sweep = <<>>
    /\ Call(name, a, at)
    /\ UNCHANGED <<port, bp, goos, state>>

\* the device's answer to a single-byte command: the ack 0x01 or another byte
AckSent == {<<1>>, <<0>>}

\* a reply is taken for the ack whatever its value
AckBad_NoValue(r, b) == r.n = 0 \/ r.err

\* if n, err := bp.BlockingRead(buf, 2000); n == 0 || err != nil || buf[0] != 0x01
AckBad(r, b) == r.n = 0 \/ r.err \/ b[1] # 1

\* a status byte other than 0x01 is an error
ReplyMissing_Nack(r, b) == r.n = 0 \/ r.err \/ b[1] # 1

\* if n, err := bp.BlockingRead(buf[:1], 2000); n == 0 || err != nil
ReplyMissing(r, b) == r.n = 0 \/ r.err

\* a read that delivered nothing within its timeout returns an error of
\* its own
ReadFail_Timeout(r) == FailAt(IF r.n = 0 /\ ~r.err THEN "timeout" ELSE pc)

\* return fmt.Errorf("error reading ... reply, n: %d, %v", n, err): the one
\* return of a read, whatever made the test of the read fail
ReadFail(r) == Fail

\* write the request, drain, read one reply byte into buf; with checked the
\* reply must be 0x01
RoundTrip(name, req, checked) ==
    /\ op = name
    /\ \/ /\ pc = "write"
          /\ BlockingWrite(req, "drain")
          /\ buf' = req
       \/ /\ pc = "drain"
          /\ Drain("read")
          /\ buf' = buf
       \/ /\ pc = "read"
          /\ \E r \in ReadOutcomes(1, AckSent) :
                /\ BlockingRead(1, r)
                /\ buf' = Overlay(buf, r.got)
                /\ IF (IF checked THEN AckBad(r, buf') ELSE ReplyMissing(r, buf'))
                   THEN ReadFail(r)
                   ELSE Succeed
    /\ UNCHANGED <<out, i, port, state>>
    /\ Frame

CloseTerm ==
    \/ Invoke("CloseTerm", <<>>, "close")
    \/ /\ Running("CloseTerm", "close")
       /\ Log(<<"C">>)
       /\ \E e \in BOOLEAN :
             /\ last' = [k |-> "C", n |-> 0, err |-> e]
             /\ IF e THEN Fail ELSE Succeed
       /\ port' = "closed"
       /\ state' = "Closed"
       /\ UNCHANGED <<buf, out, i>>
       /\ Frame

\* a LeaveBinaryMode that reads the device's reply to 0x0F and checks it
\* before it closes
LeaveBinaryMode_AckChecked ==
    \/ Invoke("LeaveBinaryMode", <<>>, "write")
    \/ /\ op = "LeaveBinaryMode"
       /\ \/ /\ pc = "write"
             /\ BlockingWrite(<<15>>, "drain")
             /\ port' = port
          \/ /\ pc = "drain"
             /\ Drain("read")
             /\ port' = port
          \/ /\ pc = "read"
             /\ \E r \in ReadOutcomes(1, AckSent) :
                   /\ BlockingRead(1, r)
                   /\ IF AckBad(r, r.got) THEN Fail ELSE Goto("close")
             /\ port' = port
          \/ /\ pc = "close"
             /\ Log(<<"C">>)
             /\ \E e \in BOOLEAN :
                   /\ last' = [k |-> "C", n |-> 0, err |-> e]
                   /\ IF e THEN Fail ELSE Succeed
             /\ port' = "closed"
       /\ state' = IF pc' = "done" THEN "Closed" ELSE state
       /\ UNCHANGED <<buf, out, i>>
       /\ Frame

\* write 0x0F, drain, close; each failure returns at once
LeaveBinaryMode ==
    \/ Invoke("LeaveBinaryMode", <<>>, "write")
    \/ /\ op = "LeaveBinaryMode"
       /\ \/ /\ pc = "write"
             /\ BlockingWrite(<<15>>, "drain")
             /\ port' = port
          \/ /\ pc = "drain"
             /\ Drain("close")
             /\ port' = port
          \/ /\ pc = "close"
             /\ Log(<<"C">>)
             /\ \E e \in BOOLEAN :
                   /\ last' = [k |-> "C", n |-> 0, err |-> e]
                   /\ IF e THEN Fail ELSE Succeed
             /\ port' = "closed"
       /\ state' = IF pc' = "done" THEN "Closed" ELSE state
       /\ UNCHANGED <<buf, out, i>>
       /\ Frame

PowerOn ==
    \/ Invoke("PowerOn", <<>>, "write")
    \/ RoundTrip("PowerOn", <<192>>, FALSE)

PowerOff ==
    \/ Invoke("PowerOff", <<>>, "write")
    \/ RoundTrip("PowerOff", <<128>>, FALSE)

\* duty = num / DutyDen
DutyDen == 10 * Pow2(DutyBits)

Duties == (0 - DutyDen) .. (2 * DutyDen)

\* a clamp that forgets the upper limit
clamp_NoUpper(v, lower, upper) == IF v < lower THEN lower ELSE v

\* if *v < lower { *v = lower }; if *v > upper { *v = upper }
clamp(v, lower, upper) ==
    LET a == IF v < lower THEN lower ELSE v
    IN  IF a > upper THEN upper ELSE a

\* the product rounded to the nearest integer, halves upwards
OCR_Rounded(num) == (2 * PRy * num + DutyDen) \div (2 * DutyDen)

\* OCR := uint16(float64(PRy) * duty), duty = num / DutyDen already clamped:
\* the conversion to uint16 drops the fraction
OCR(num) == (PRy * num) \div DutyDen

\* the frame with the low byte of OCR before the high byte
PwmFrame_LowFirst(num) ==
    LET d == clamp(num, 0, DutyDen)
    IN  <<18, 0, Lo(OCR(d)), Hi(OCR(d)), Hi(PRy), Lo(PRy)>>

\* buf := []byte{0x12, 0x00, uint8(OCR >> 8), uint8(OCR), uint8(PRy >> 8), uint8(PRy)}
PwmFrame(num) ==
    LET d == clamp(num, 0, DutyDen)
    IN  <<18, 0, Hi(OCR(d)), Lo(OCR(d)), Hi(PRy), Lo(PRy)>>

\* duty := 0.1; delta := 0.1
SweepStart == <<DutyDen \div 10, DutyDen \div 10>>

\* duty += delta; if duty > 1.0 { duty = 1.0; delta = -delta };
\* if duty < 0 { duty = 0.0; delta = -delta }
\* The sums are taken over the tenths; the float64 sums of the example lie
\* within 2^-50 of them.
SweepStep(s) ==
    LET d == s[1] + s[2]
        a == IF d > DutyDen THEN <<DutyDen, 0 - s[2]>> ELSE <<d, s[2]>>
    IN  IF a[1] < 0 THEN <<0, 0 - a[2]>> ELSE a

SetPWM ==
    \/ \E num \in Duties : Invoke("SetPWM", [duty |-> num], "write")
    \/ /\ bp
       /\ sweep # <<>>
       /\ Call("SetPWM", [duty |-> sweep[1]], "write")
       /\ UNCHANGED <<port, bp, goos, state>>
    \/ op = "SetPWM" /\ RoundTrip("SetPWM", PwmFrame(args.duty), FALSE)

\* a reply is taken for "SPI1" when the bytes that did arrive match its front
SpiEnterFailed_Prefix(r, b) == r.err \/ SubSeq(b, 1, r.n) # SubSeq(SPI1, 1, r.n)

\* if n, err := bp.BlockingRead(reply, 2000); err != nil || string(reply) != "SPI1"
SpiEnterFailed(r, b) == r.err \/ b # SPI1

SpiEnter ==
    \/ Invoke("SpiEnter", <<>>, "write")
    \/ /\ op = "SpiEnter"
       /\ \/ /\ pc = "write"
             /\ BlockingWrite(<<spiRawMode>>, "drain")
             /\ buf' = buf
          \/ /\ pc = "drain"
             /\ Drain("read")
             /\ buf' = Zeros(4)
          \/ /\ pc = "read"
             /\ \E r \in ReadOutcomes(4, {SPI1, <<83, 80, 73, 48>>}) :
                   /\ BlockingRead(4, r)
                   /\ buf' = Overlay(buf, r.got)
                   /\ IF SpiEnterFailed(r, buf') THEN ReadFail(r) ELSE Succeed
       /\ state' = IF pc' = "done" /\ ret' = "ok" THEN "BinarySPI" ELSE state
       /\ UNCHANGED <<out, i, port>>
       /\ Frame

\* a drain whose error is returned
DrainIgnored_Checked ==
    \E e \in DrainOutcomes :
        /\ Log(<<"D">>)
        /\ last' = [k |-> "D", n |-> 0, err |-> e]
        /\ IF e THEN Fail ELSE Succeed

\* bp.Drain(); return nil
DrainIgnored ==
    \E e \in DrainOutcomes :
        /\ Log(<<"D">>)
        /\ last' = [k |-> "D", n |-> 0, err |-> e]
        /\ Succeed

SpiLeave ==
    \/ Invoke("SpiLeave", <<>>, "write")
    \/ /\ op = "SpiLeave"
       /\ \/ /\ pc = "write"
             /\ BlockingWrite(<<resetBitbangMode>>, "drain")
          \/ /\ pc = "drain"
             /\ DrainIgnored
       /\ state' = IF pc' = "done" /\ state = "BinarySPI" THEN "BinaryBitbang" ELSE state
       \* the device answers resetBitbangMode like a probe of
       \* enterBinaryMode, with "BBIO1"; no statement of SpiLeave reads
       /\ unread' = (unread \/ pc' = "drain")
       /\ UNCHANGED <<buf, out, i, port>>
       /\ UNCHANGED <<op, args, bp, goos, first, short, sweep>>

\* the state of the chip select is left out of the byte
CSByte_NoFlag(high) == spiCSState

\* buf := []byte{spiCSState}; if high { buf[0] |= 0x01 }
CSByte(high) == Or(spiCSState, Bit(high, 1))

SpiCS ==
    \/ \E high \in BOOLEAN : Invoke("SpiCS", [high |-> high], "write")
    \/ op = "SpiCS" /\ RoundTrip("SpiCS", <<CSByte(args.high)>>, TRUE)

PeriphByte(power, pullups, aux, cs) ==
    Or(Or(Or(Or(spiPeriphCfg, Bit(power, 8)), Bit(pullups, 4)), Bit(aux, 2)), Bit(cs, 1))

SpiCfgPeriph ==
    \/ \E power, pullups, aux, cs \in BOOLEAN :
          Invoke("SpiCfgPeriph",
                 [power |-> power, pullups |-> pullups, aux |-> aux, cs |-> cs], "write")
    \/ /\ op = "SpiCfgPeriph"
       /\ RoundTrip("SpiCfgPeriph",
                    <<PeriphByte(args.power, args.pullups, args.aux, args.cs)>>, TRUE)

\* the SpiSpeed type is a uint8; the eight named speeds are 0..7
Speeds == {0, 3, 7, 8, 255}

\* the speed is or-ed in without its mask
SpeedByte_NoMask(speed) == Or(spiSpeedCfg, speed)

\* buf[0] |= byte(speed & 0x07)
SpeedByte(speed) == Or(spiSpeedCfg, speed % 8)

SpiSpeed ==
    \/ \E speed \in Speeds : Invoke("SpiSpeed", [speed |-> speed], "write")
    \/ op = "SpiSpeed" /\ RoundTrip("SpiSpeed", <<SpeedByte(args.speed)>>, TRUE)

CfgByte(output33v, idle, edge, sample) ==
    Or(Or(Or(Or(spiCfg, Bit(output33v, 8)), Bit(idle, 4)), Bit(edge, 2)), Bit(sample, 1))

SpiCfg ==
    \/ \E output33v, idle, edge, sample \in BOOLEAN :
          Invoke("SpiCfg",
                 [output33v |-> output33v, idle |-> idle, edge |-> edge,
                  sample |-> sample], "write")
    \/ /\ op = "SpiCfg"
       /\ RoundTrip("SpiCfg",
                    <<CfgByte(args.output33v, args.idle, args.edge, args.sample)>>, TRUE)

\* the payloads the caller passes: bytes base, base+1, ... of each length
Pattern(len, base) == [j \in 1..len |-> (base + j - 1) % 256]

PayloadLens(max) == {0, 1, SmallLen, max, max + 1}

\* the SPI slave behind the device answers each byte d with d + 100
SlaveReply(d) == (d + 100) % 256

\* the upper limit off by one
SendLenInvalid_Upper(l) == l < 1 \/ l > BulkMax + 1

\* the lower limit off by one
SendLenInvalid_Lower(l) == l < 2 \/ l > BulkMax

\* l := len(data); if l < 1 || l > 16 { return nil, error }
SendLenInvalid(l) == l < 1 \/ l > BulkMax

\* buf := []byte{spiBulkTransferMode | byte(l-1)}
BulkByte(l) == Or(spiBulkTransferMode, Byte(l - 1))

\* every reply byte lands in out[0]
StoreReply_First(o, at, r) == [o EXCEPT ![1] = r]

\* out[i:i+1] receives the reply byte r
StoreReply(o, at, r) == [o EXCEPT ![at + 1] = r]

SpiSend ==
    \/ \E l \in PayloadLens(BulkMax), base \in {1, 200} :
          Invoke("SpiSend", [data |-> Pattern(l, base)], "check")
    \/ /\ op = "SpiSend"
       /\ \/ /\ pc = "check"
             /\ IF SendLenInvalid(Len(args.data)) THEN Fail ELSE Goto("write")
             /\ UNCHANGED <<trace, last, buf, out, i>>
          \/ /\ pc = "write"
             /\ BlockingWrite(<<BulkByte(Len(args.data))>>, "drain")
             /\ buf' = <<BulkByte(Len(args.data))>>
             /\ UNCHANGED <<out, i>>
          \/ /\ pc = "drain"
             /\ Drain("read")
             /\ UNCHANGED <<buf, out, i>>
          \/ /\ pc = "read"
             /\ \E r \in ReadOutcomes(1, AckSent) :
                   /\ BlockingRead(1, r)
                   /\ buf' = Overlay(buf, r.got)
                   /\ IF r.n = 0 \/ r.err \/ buf'[1] # 1
                      THEN ReadFail(r) /\ out' = out
                      ELSE Goto("data_w") /\ out' = Zeros(Len(args.data))
             /\ i' = 0
          \/ /\ pc = "data_w"
             /\ BlockingWrite(Slice(args.data, i, i + 1), "data_d")
             /\ UNCHANGED <<buf, out, i>>
          \/ /\ pc = "data_d"
             /\ Drain("data_r")
             /\ UNCHANGED <<buf, out, i>>
          \/ /\ pc = "data_r"
             /\ \E r \in ReadOutcomes(1, {<<SlaveReply(args.data[i + 1])>>}) :
                   /\ BlockingRead(1, r)
                   /\ out' = IF r.n > 0 THEN StoreReply(out, i, r.got[1]) ELSE out
                   /\ IF r.n = 0 \/ r.err
                      THEN ReadFail(r) /\ i' = i
                      ELSE /\ i' = i + 1
                           /\ IF i + 1 < Len(args.data) THEN Goto("data_w") ELSE Succeed
             /\ buf' = buf
       /\ UNCHANGED <<port, state>>
       /\ Frame

\* what SpiSend returns: out with a nil error, nil otherwise
SendResult == IF ret = "ok" THEN out ELSE <<>>

\* the upper limit off by one
CountInvalid_Upper(cnt) == cnt < 0 \/ cnt > WriteReadMax + 1

\* if outCnt < 0 || outCnt > 4096 / if inCnt < 0 || inCnt > 4096
CountInvalid(cnt) == cnt < 0 \/ cnt > WriteReadMax

\* the two count bytes swapped: low byte first
CountBytes_LowFirst(cnt) == <<Byte(cnt), Byte(cnt \div 256)>>

\* buf[1] = byte(cnt); buf[0] = byte(cnt >> 8)
CountBytes(cnt) == <<Byte(cnt \div 256), Byte(cnt)>>

\* only an empty final read is an error
InDataShort_Empty(r, want) == r.n = 0 \/ r.err

\* if n, err := bp.BlockingRead(inData, 60*1000); n < inCnt || err != nil
InDataShort(r, want) == r.n < want \/ r.err

\* the bytes the SPI slave clocks back for a read of want bytes
SlaveBlock(want) == Pattern(want, 100)

SpiWriteRead ==
    \/ \E lo \in PayloadLens(WriteReadMax), li \in PayloadLens(WriteReadMax) :
          Invoke("SpiWriteRead", [outData |-> Pattern(lo, 1), inCnt |-> li], "check")
    \/ /\ op = "SpiWriteRead"
       /\ \/ /\ pc = "check"
             /\ IF CountInvalid(Len(args.outData)) \/ CountInvalid(args.inCnt)
                THEN Fail
                ELSE Goto("write")
             /\ out' = Zeros(args.inCnt)
             /\ UNCHANGED <<trace, last, buf>>
          \/ /\ pc = "write"
             /\ BlockingWrite(<<spiWriteReadCmd>>, "drain")
             /\ buf' = <<spiWriteReadCmd, 0>>
             /\ out' = out
          \/ /\ pc = "drain"
             /\ Drain("oc_w")
             /\ UNCHANGED <<buf, out>>
          \/ /\ pc = "oc_w"
             /\ BlockingWrite(CountBytes(Len(args.outData)), "oc_d")
             /\ buf' = CountBytes(Len(args.outData))
             /\ out' = out
          \/ /\ pc = "oc_d"
             /\ Drain("ic_w")
             /\ UNCHANGED <<buf, out>>
          \/ /\ pc = "ic_w"
             /\ BlockingWrite(CountBytes(args.inCnt), "ic_d")
             /\ buf' = CountBytes(args.inCnt)
             /\ out' = out
          \/ /\ pc = "ic_d"
             /\ Drain("od_w")
             /\ UNCHANGED <<buf, out>>
          \/ /\ pc = "od_w"
             /\ BlockingWrite(args.outData, "od_d")
             /\ UNCHANGED <<buf, out>>
          \/ /\ pc = "od_d"
             /\ Drain("st_r")
             /\ UNCHANGED <<buf, out>>
          \/ /\ pc = "st_r"
             /\ \E r \in ReadOutcomes(1, AckSent) :
                   /\ BlockingRead(1, r)
                   /\ buf' = Overlay(buf, r.got)
                   /\ IF r.n = 0 \/ r.err \/ buf'[1] # 1
                      THEN ReadFail(r)
                      ELSE IF args.inCnt > 0 THEN Goto("in_r") ELSE Succeed
             /\ out' = out
          \/ /\ pc = "in_r"
             /\ \E r \in ReadOutcomes(args.inCnt, {SlaveBlock(args.inCnt)}) :
                   /\ BlockingRead(args.inCnt, r)
                   /\ out' = Overlay(out, r.got)
                   /\ IF InDataShort(r, args.inCnt) THEN ReadFail(r) ELSE Succeed
             /\ buf' = buf
       /\ UNCHANGED <<i, port, state>>
       /\ Frame

----------------------------------------------------------------------------
(* The caller *)

\* the method has returned; the caller goes on to its next call. The SetPWM
\* example panics on an error and otherwise steps its duty
Return ==
    /\ pc = "done"
    /\ sweep = <<>> \/ ret = "ok"
    /\ sweep' = IF sweep # <<>> /\ op = "SetPWM" THEN SweepStep(sweep) ELSE sweep
    /\ pc' = "idle"
    /\ msg' = <<>>
    /\ op' = "none"
    /\ args' = <<>>
    /\ ret' = "none"
    /\ trace' = <<>>
    /\ last' = NoLast
    /\ buf' = <<>>
    /\ out' = <<>>
    /\ i' = 0
    /\ first' = 0
    /\ short' = FALSE
    /\ unread' = FALSE
    /\ UNCHANGED <<port, bp, goos, state>>

Init ==
    /\ pc = "idle"
    /\ op = "none"
    /\ args = <<>>
    /\ ret = "none"
    /\ trace = <<>>
    /\ last = NoLast
    /\ buf = <<>>
    /\ out = <<>>
    /\ i = 0
    /\ first = 0
    /\ short = FALSE
    /\ unread = FALSE
    /\ port = "none"
    /\ bp = FALSE
    /\ goos \in {"linux", "windows"}
    /\ state = "TextConsole"
    /\ sweep \in {<<>>, SweepStart}
    /\ msg = <<>>

Next ==
    \/ Open
    \/ CloseTerm
    \/ LeaveBinaryMode
    \/ PowerOn
    \/ PowerOff
    \/ SetPWM
    \/ SpiEnter
    \/ SpiLeave
    \/ SpiCS
    \/ SpiCfgPeriph
    \/ SpiSpeed
    \/ SpiCfg
    \/ SpiSend
    \/ SpiWriteRead
    \/ Return

Spec == Init /\ [][Next]_vars

----------------------------------------------------------------------------
(* Observations on the trace *)

Done(name) == op = name /\ pc = "done"

\* the transport calls of the trace that satisfy Test, in order
RECURSIVE Only(_, _)
Only(t, kinds) ==
    IF t = <<>> THEN <<>>
    ELSE IF Head(t)[1] \in kinds THEN <<Head(t)>> \o Only(Tail(t), kinds)
         ELSE Only(Tail(t), kinds)

\* number of writes of exactly the bytes b
Count(b) == Cardinality({j \in 1..Len(trace) : trace[j] = <<"W", b>>})

Probes == Count(<<0>>)

----------------------------------------------------------------------------
(* C1 *)

\* enterBinaryMode ran to its end on a working transport: it did not return
\* on a failed write or drain
EnterRanOut == Done("Open") /\ bp /\ last.k = "R"

\* C1: against a device whose replies to the 0x00 probe arrive whole (five
\* bytes or nothing), enterBinaryMode keeps probing while no "BBIO1" has
\* been read, returns nil after exactly k probe bytes when "BBIO1" is first
\* read on attempt k, and returns an error after exactly 30 probe bytes when
\* no attempt reads "BBIO1".
C1_ProbesUntilFirstBanner ==
    /\ (op = "Open" /\ pc \in {"enter_w", "enter_d", "enter_r"} /\ ~short)
          => first = 0 /\ Probes \in {i, i + 1} /\ i < MaxAttempts
    /\ (EnterRanOut /\ ~short /\ first > 0) => ret = "ok" /\ Probes = first
    /\ (EnterRanOut /\ ~short /\ first = 0) => ret = "err" /\ Probes = MaxAttempts

\* the banner came on a later attempt than the first, after silent attempts
C1_Witness ==
    EnterRanOut /\ ~short /\ first = 3 /\ ret = "ok" /\ Probes = 3

C1_WitnessExhausted ==
    EnterRanOut /\ ~short /\ first = 0 /\ ret = "err" /\ Probes = MaxAttempts

\* the writes and reads of the trace, without the drains
IO == Only(trace, {"W", "R"})

IsPrefix(a, b) == Len(a) <= Len(b) /\ a = SubSeq(b, 1, Len(a))

Wrote == \E j \in 1..Len(trace) : trace[j][1] = "W"

NumReads == Cardinality({j \in 1..Len(trace) : trace[j][1] = "R"})

----------------------------------------------------------------------------
(* C2 *)

SpiOnly == {"SpiCS", "SpiCfgPeriph", "SpiSpeed", "SpiCfg", "SpiSend", "SpiWriteRead"}

\* C2 as claimed: an SPI-only operation writes to the transport only while
\* the connection state is BinarySPI.
C2_WritesOnlyInBinarySPI ==
    (op \in SpiOnly /\ Wrote) => state = "BinarySPI"

\* the arguments of the running SPI-only call pass the method's own checks
C2_ArgsInRange ==
    /\ op = "SpiSend" => Len(args.data) \in 1..16
    /\ op = "SpiWriteRead" => Len(args.outData) \in 0..4096 /\ args.inCnt \in 0..4096

\* C2 amended: the driver keeps no connection state and no SPI-only operation
\* is rejected on account of it: in every connection state, also after a
\* failed SpiEnter, an SPI-only call with in-range arguments writes its
\* request byte as its first transport call and never returns without it.
C2_NoStateCheck ==
    (op \in SpiOnly /\ C2_ArgsInRange /\ pc \notin {"check", "write"})
        => /\ trace # <<>>
           /\ trace[1][1] = "W"
           /\ Len(trace[1][2]) = 1

\* SpiCS went through outside BinarySPI
C2_Witness ==
    Done("SpiCS") /\ state = "BinaryBitbang" /\ ret = "ok" /\ trace[1] = <<"W", <<3>>>>

----------------------------------------------------------------------------
(* C3 *)

\* C3: SpiEnter writes the single byte 0x01, drains and reads up to 4 bytes;
\* it returns nil exactly when that read reported no error and the reply
\* buffer holds "SPI1", which takes all four bytes to have been read.
C3_SpiEnterExactBanner ==
    /\ op = "SpiEnter" => IsPrefix(trace, <<<<"W", <<1>>>>, <<"D">>, <<"R", 4>>>>)
    /\ Done("SpiEnter") =>
          /\ ret = "ok" <=> (last.k = "R" /\ ~last.err /\ buf = <<83, 80, 73, 49>>)
          /\ ret = "ok" => last.n = 4 /\ Len(trace) = 3

C3_Witness ==
    Done("SpiEnter") /\ ret = "ok" /\ last.k = "R" /\ buf = <<83, 80, 73, 49>>

\* a reply cut short after "SPI" is refused
C3_WitnessShort ==
    Done("SpiEnter") /\ ret = "err" /\ last.k = "R" /\ ~last.err /\ last.n = 3

----------------------------------------------------------------------------
(* C4 *)

\* C4: SpiSend with a data length outside 1..16 returns an error without a
\* single transport call: no write and no read.
C4_SendLengthRejected ==
    (op = "SpiSend" /\ Len(args.data) \notin 1..16)
        => /\ trace = <<>>
           /\ pc \in {"check", "done"}
           /\ pc = "done" => ret = "err" /\ SendResult = <<>>

C4_Witness ==
    Done("SpiSend") /\ Len(args.data) = 17 /\ ret = "err" /\ trace = <<>>

C4_WitnessEmpty ==
    Done("SpiSend") /\ Len(args.data) = 0 /\ ret = "err" /\ trace = <<>>

----------------------------------------------------------------------------
(* C5 *)

\* the writes and reads of a complete SpiSend of data d
RECURSIVE C5_Exchange(_)
C5_Exchange(d) ==
    IF d = <<>> THEN <<>>
    ELSE <<<<"W", <<Head(d)>>>>, <<"R", 1>>>> \o C5_Exchange(Tail(d))

C5_Expected(d) == <<<<"W", <<16 + (Len(d) - 1)>>>>, <<"R", 1>>>> \o C5_Exchange(d)

\* C5: for data of length L in 1..16 SpiSend writes the opcode 0x10 | (L-1)
\* and reads an ack that must be 0x01; then writes and reads alternate, one
\* data byte written only after the reply to the one before has been read;
\* on success it returns exactly L bytes, byte i the device's reply to
\* data[i], which is (data[i] + 100) mod 256 against the echoing device.
C5_SendLockstep ==
    (op = "SpiSend" /\ Len(args.data) \in 1..16) =>
        /\ IsPrefix(IO, C5_Expected(args.data))
        /\ pc \in {"data_w", "data_d", "data_r"} => buf = <<1>>
        /\ pc = "data_w" => Len(IO) = 2 * (i + 1)
        /\ Done("SpiSend") /\ ret = "ok" =>
              /\ IO = C5_Expected(args.data)
              /\ buf = <<1>>
              /\ Len(SendResult) = Len(args.data)
              /\ \A j \in 1..Len(args.data) : SendResult[j] = (args.data[j] + 100) % 256

C5_Witness ==
    /\ Done("SpiSend") /\ ret = "ok" /\ Len(args.data) = 16
    /\ SendResult[1] = 101 /\ SendResult[16] = 116

----------------------------------------------------------------------------
(* C6 *)

\* C6: SpiWriteRead with more than 4096 bytes of outData or of inData
\* returns an error before any byte is written to the transport.
C6_CountsRejected ==
    (op = "SpiWriteRead" /\ (Len(args.outData) > 4096 \/ args.inCnt > 4096))
        => /\ trace = <<>>
           /\ pc \in {"check", "done"}
           /\ pc = "done" => ret = "err"

C6_Witness ==
    Done("SpiWriteRead") /\ Len(args.outData) = 4097 /\ args.inCnt = 1 /\ ret = "err"

C6_WitnessIn ==
    Done("SpiWriteRead") /\ Len(args.outData) = 1 /\ args.inCnt = 4097 /\ ret = "err"

----------------------------------------------------------------------------
(* C7 *)

C7_Header(o, n) ==
    <<<<"W", <<4>>>>,
      <<"W", <<o \div 256, o % 256>>>>,
      <<"W", <<n \div 256, n % 256>>>>>>

C7_Expected(outData, n) ==
    C7_Header(Len(outData), n) \o <<<<"W", outData>>, <<"R", 1>>>>
        \o (IF n > 0 THEN <<<<"R", n>>>> ELSE <<>>)

\* C7: SpiWriteRead makes its writes and reads in this order: the opcode
\* byte 0x04, the out-count as two bytes high byte first, the in-count as two
\* bytes high byte first, all of outData in one write, a read of one status
\* byte and, only when in-count > 0, a read of in-count bytes; a successful
\* call makes all of them and no read comes before the write of outData.
\* (The method has no form without chip select: 0x05 is never written.)
C7_WriteReadOrder ==
    op = "SpiWriteRead" =>
        /\ IsPrefix(IO, C7_Expected(args.outData, args.inCnt))
        /\ Done("SpiWriteRead") /\ ret = "ok" => IO = C7_Expected(args.outData, args.inCnt)
        /\ \A j \in 1..Len(IO) : IO[j][1] = "R" => j > 4 /\ IO[4] = <<"W", args.outData>>

C7_Witness ==
    /\ Done("SpiWriteRead") /\ ret = "ok"
    /\ Len(args.outData) = 4096 /\ args.inCnt = SmallLen
    /\ IO[2] = <<"W", <<16, 0>>>> /\ IO[3] = <<"W", <<0, SmallLen>>>>
    /\ Len(IO) = 6

\* without bytes to read back the status byte is the only read
C7_WitnessNoIn ==
    Done("SpiWriteRead") /\ ret = "ok" /\ args.inCnt = 0 /\ Len(IO) = 5

----------------------------------------------------------------------------
(* C8 *)

\* the transport call that ended the method did what a working transport
\* and an answering device do: the write took all its bytes, the drain
\* succeeded, the read delivered all the bytes asked for, status byte 1
C8_LastCallWorked ==
    /\ ~last.err
    /\ last.k = "W" => last.n = Len(trace[Len(trace)][2])
    /\ last.k = "R" => last.n = trace[Len(trace)][2] /\ buf[1] = 1

\* C8: SpiWriteRead accepts an empty outData: with 0 <= in-count <= 4096, a
\* working transport and a device answering status 1 and in-count bytes, the
\* call returns success.
C8_EmptyOutAccepted ==
    (Done("SpiWriteRead") /\ Len(args.outData) = 0 /\ args.inCnt \in 0..4096
        /\ C8_LastCallWorked)
        => ret = "ok"

----------------------------------------------------------------------------
(* C9 *)

\* C9: SpiWriteRead returns success only if a status byte was read and
\* equals 1 and, when in-count > 0, the final read delivered exactly in-count
\* bytes into inData; a status byte other than 1, no status byte, or a final
\* read shorter than in-count yields an error.
C9_StatusAndFullRead ==
    op = "SpiWriteRead" =>
        /\ pc = "in_r" => last.k = "R" /\ last.n = 1 /\ ~last.err /\ buf[1] = 1
        /\ (pc = "done" /\ ret = "ok") =>
              /\ buf[1] = 1
              /\ last.k = "R" /\ ~last.err
              /\ NumReads = (IF args.inCnt > 0 THEN 2 ELSE 1)
              /\ last.n = (IF args.inCnt > 0 THEN args.inCnt ELSE 1)
              /\ out = [j \in 1..args.inCnt |-> (99 + j) % 256]
        /\ (pc = "done" /\ NumReads = 1 /\ (last.n = 0 \/ buf[1] # 1)) => ret = "err"
        /\ (pc = "done" /\ NumReads = 2 /\ last.n < args.inCnt) => ret = "err"

C9_Witness ==
    /\ Done("SpiWriteRead") /\ ret = "ok" /\ args.inCnt = SmallLen
    /\ last.n = SmallLen /\ NumReads = 2

\* a final read one byte short is an error
C9_WitnessShort ==
    /\ Done("SpiWriteRead") /\ ret = "err" /\ NumReads = 2
    /\ ~last.err /\ last.n = 4095 /\ args.inCnt = 4096

----------------------------------------------------------------------------
(* C10 *)

\* the OCR field of the frame SetPWM wrote
C10_Encoded == trace[1][2][3] * 256 + trace[1][2][4]

\* the duty of the call, as a numerator over DutyDen, clamped to [0, 1]
C10_Clamped ==
    IF args.duty < 0 THEN 0 ELSE IF args.duty > DutyDen THEN DutyDen ELSE args.duty

\* C10 as claimed: the encoded OCR is 0x3E7F * clamp(d, 0, 1) rounded to the
\* nearest integer (within one half of the product, halves upwards).
C10_OCRRounded ==
    (op = "SetPWM" /\ trace # <<>>) =>
        /\ 2 * C10_Encoded * DutyDen <= 2 * 15999 * C10_Clamped + DutyDen
        /\ 2 * C10_Encoded * DutyDen > 2 * 15999 * C10_Clamped - DutyDen

\* C10 amended: the encoded OCR is 0x3E7F * clamp(d, 0, 1) with the fraction
\* dropped, the largest integer not above the product (d = 1/2 gives 7999).
C10_OCRTruncated ==
    (op = "SetPWM" /\ trace # <<>>) =>
        /\ trace[1][1] = "W"
        /\ C10_Encoded * DutyDen <= 15999 * C10_Clamped
        /\ (C10_Encoded + 1) * DutyDen > 15999 * C10_Clamped

C10_Witness ==
    op = "SetPWM" /\ trace # <<>> /\ 2 * args.duty = DutyDen /\ C10_Encoded = 7999

----------------------------------------------------------------------------
(* C11 *)

\* the OCR field of a SetPWM frame
OcrOf(f) == f[3] * 256 + f[4]

\* C11: the clamp of SetPWM is idempotent and the encoding is monotonic:
\* clamping a clamped duty changes nothing and encodes the frame that was
\* written, a duty not above (not below) another encodes an OCR not above
\* (not below) the other's, every duty below 0 is written as the frame of
\* duty 0 and every duty above 1 as the frame of duty 1.
C11_ClampIdempotentMonotone ==
    (op = "SetPWM" /\ trace # <<>>) =>
        LET d == args.duty
            c == clamp(d, 0, DutyDen)
            f == trace[1][2]
        IN  /\ clamp(c, 0, DutyDen) = c
            /\ PwmFrame(c) = f
            /\ \A e \in Duties : d <= e => OcrOf(f) <= OcrOf(PwmFrame(e))
            /\ \A e \in Duties : e <= d => OcrOf(PwmFrame(e)) <= OcrOf(f)
            /\ d < 0 => f = <<18, 0, 0, 0, 62, 127>> /\ f = PwmFrame(0)
            /\ d > DutyDen => f = <<18, 0, 62, 127, 62, 127>> /\ f = PwmFrame(DutyDen)

\* a duty above 1 was written as the frame of duty 1
C11_Witness ==
    /\ op = "SetPWM" /\ trace # <<>> /\ args.duty = 2 * DutyDen
    /\ trace[1][2] = <<18, 0, 62, 127, 62, 127>>

\* a duty below 0 was written as the frame of duty 0
C11_WitnessBelow ==
    /\ op = "SetPWM" /\ trace # <<>> /\ args.duty < 0
    /\ trace[1][2] = <<18, 0, 0, 0, 62, 127>>

----------------------------------------------------------------------------
(* C12 *)

\* C12: SetPWM writes one frame and nothing else, and the frame is the six
\* bytes 0x12, 0x00, OCR-high, OCR-low, 0x3E, 0x7F with 0 <= OCR <= 0x3E7F,
\* for every duty; the calls of the example's duty sweep are among them.
C12_FrameInRange ==
    (op = "SetPWM" /\ trace # <<>>) =>
        LET f == trace[1][2]
        IN  /\ trace[1][1] = "W"
            /\ Only(trace, {"W"}) = <<trace[1]>>
            /\ Len(f) = 6
            /\ f[1] = 18 /\ f[2] = 0 /\ f[5] = 62 /\ f[6] = 127
            /\ f[3] \in 0..255 /\ f[4] \in 0..255
            /\ f[3] * 256 + f[4] \in 0..15999

\* the sweep has turned round at duty 1 and writes the frame of duty 1 again
C12_Witness ==
    /\ op = "SetPWM" /\ trace # <<>> /\ sweep # <<>>
    /\ sweep[1] = DutyDen /\ sweep[2] < 0
    /\ trace[1][2] = <<18, 0, 62, 127, 62, 127>>

\* the sweep has turned round at duty 0
C12_WitnessZero ==
    /\ op = "SetPWM" /\ trace # <<>> /\ sweep # <<>>
    /\ sweep[1] = 0 /\ sweep[2] > 0
    /\ trace[1][2] = <<18, 0, 0, 0, 62, 127>>

----------------------------------------------------------------------------
(* C13 *)

SpiConfig == {"SpiCS", "SpiCfgPeriph", "SpiSpeed", "SpiCfg"}

\* C13: each of SpiCS, SpiCfgPeriph, SpiSpeed and SpiCfg writes one
\* request byte, drains, then reads one reply byte, and returns success
\* exactly when the read delivered a byte without error and the byte is 0x01.
C13_OneByteAcked ==
    (op \in SpiConfig /\ trace # <<>>) =>
        /\ trace[1][1] = "W" /\ Len(trace[1][2]) = 1
        /\ IsPrefix(trace, <<trace[1], <<"D">>, <<"R", 1>>>>)
        /\ pc = "done" =>
              (ret = "ok" <=> /\ Len(trace) = 3
                             /\ last.k = "R" /\ last.n = 1 /\ ~last.err
                             /\ buf = <<1>>)

C13_Witness ==
    Done("SpiCfg") /\ ret = "ok" /\ Len(trace) = 3 /\ buf = <<1>>

\* a reply byte other than 0x01 is an error
C13_WitnessNack ==
    /\ Done("SpiSpeed") /\ ret = "err"
    /\ last.k = "R" /\ last.n = 1 /\ ~last.err /\ buf = <<0>>

----------------------------------------------------------------------------
(* C14 *)

C14_B(flag) == IF flag THEN 1 ELSE 0

\* the request byte the claim gives for the call
C14_Request ==
    CASE op = "SpiCS" -> 2 + C14_B(args.high)
      [] op = "SpiCfgPeriph" ->
            64 + 8 * C14_B(args.power) + 4 * C14_B(args.pullups)
               + 2 * C14_B(args.aux) + C14_B(args.cs)
      [] op = "SpiSpeed" -> 96 + (args.speed % 8)
      [] op = "SpiCfg" ->
            128 + 8 * C14_B(args.output33v) + 4 * C14_B(args.idle)
                + 2 * C14_B(args.edge) + C14_B(args.sample)

\* C14: the request byte of the SPI configuration commands depends on the
\* arguments only: SpiCS writes 0x02 + (high ? 1 : 0), SpiCfgPeriph
\* 0x40 + 8*power + 4*pullups + 2*aux + cs, SpiSpeed 0x60 + (speed mod 8),
\* SpiCfg 0x80 + 8*output33v + 4*idle + 2*edge + sample.
C14_RequestByte ==
    (op \in SpiConfig /\ trace # <<>>) => trace[1] = <<"W", <<C14_Request>>>>

\* a speed above 7 is reduced mod 8
C14_Witness ==
    op = "SpiSpeed" /\ args.speed = 255 /\ trace # <<>> /\ trace[1] = <<"W", <<103>>>>

C14_WitnessPeriph ==
    /\ op = "SpiCfgPeriph" /\ args.power /\ ~args.pullups /\ args.aux /\ args.cs
    /\ trace # <<>> /\ trace[1] = <<"W", <<75>>>>

----------------------------------------------------------------------------
(* C15 *)

\* C15: every call of LeaveBinaryMode ends with the transport closed,
\* whichever way it returns: after a failed write of 0x0F, after a failed
\* drain, and after a close that reported an error.
C15_LeaveAlwaysCloses ==
    Done("LeaveBinaryMode") => port = "closed"

----------------------------------------------------------------------------
(* C16 *)

\* C16: when Open returns an error after the port was opened (the baud
\* negotiation failed, SetBaudrate failed, or no attempt to enter binary
\* mode succeeded), the port has been closed again.
C16_OpenErrorReleases ==
    (Done("Open") /\ ret = "err" /\ trace # <<>>) => port = "closed"

----------------------------------------------------------------------------
(* C17 *)

Closing == \E j \in 1..Len(trace) : trace[j] = <<"C">>

\* C17 as claimed: LeaveBinaryMode reads the device's reply to 0x0F after
\* the drain and before it closes the transport, and SpiLeave reads nothing.
C17_LeaveAckChecked ==
    /\ (op = "LeaveBinaryMode" /\ Closing) =>
           IO = <<<<"W", <<15>>>>, <<"R", 1>>>>
    /\ op = "SpiLeave" => NumReads = 0

\* C17 amended: neither LeaveBinaryMode nor SpiLeave reads a reply:
\* LeaveBinaryMode writes 0x0F, drains and closes the transport, and no
\* read comes between the drain and the close.
C17_LeaveReadsNothing ==
    /\ op = "LeaveBinaryMode" =>
           /\ NumReads = 0
           /\ IsPrefix(trace, <<<<"W", <<15>>>>, <<"D">>, <<"C">>>>)
    /\ op = "SpiLeave" => NumReads = 0

\* LeaveBinaryMode has closed the transport and returned success
C17_Witness ==
    /\ Done("LeaveBinaryMode") /\ ret = "ok" /\ port = "closed"
    /\ trace = <<<<"W", <<15>>>>, <<"D">>, <<"C">>>>

----------------------------------------------------------------------------
(* C18 *)

\* C18: SpiLeave writes the single byte 0x00, drains and reads nothing; it
\* returns an error exactly when the write fails (an error or zero bytes
\* written), and a failed drain does not make it fail.
C18_LeaveFailsOnWriteOnly ==
    (op = "SpiLeave" /\ trace # <<>>) =>
        /\ IsPrefix(trace, <<<<"W", <<0>>>>, <<"D">>>>)
        /\ pc = "done" =>
              (ret = "err" <=> last.k = "W" /\ (last.n = 0 \/ last.err))

\* the drain failed and SpiLeave returned success
C18_Witness ==
    Done("SpiLeave") /\ ret = "ok" /\ last.k = "D" /\ last.err

C18_WitnessWrite ==
    Done("SpiLeave") /\ ret = "err" /\ last.k = "W" /\ last.n = 0 /\ ~last.err

----------------------------------------------------------------------------
(* C19 *)

\* C19: PowerOn writes 0xC0 and PowerOff 0x80, one byte; each then drains
\* and reads one status byte. The call fails when the write, the drain or
\* the read fails or the read delivers no byte, and succeeds otherwise,
\* whatever the value of the status byte.
C19_PowerStatusUnchecked ==
    (op \in {"PowerOn", "PowerOff"} /\ trace # <<>>) =>
        /\ trace[1] = <<"W", <<IF op = "PowerOn" THEN 192 ELSE 128>>>>
        /\ IsPrefix(trace, <<trace[1], <<"D">>, <<"R", 1>>>>)
        /\ pc = "done" =>
              (ret = "ok" <=> /\ Len(trace) = 3
                             /\ last.k = "R" /\ last.n = 1 /\ ~last.err)

\* a status byte other than 0x01 and success
C19_Witness ==
    Done("PowerOn") /\ ret = "ok" /\ buf = <<0>> /\ last.k = "R" /\ last.n = 1

C19_WitnessOff ==
    Done("PowerOff") /\ ret = "err" /\ last.k = "R" /\ last.n = 0 /\ ~last.err

----------------------------------------------------------------------------
(* C20 *)

\* the reply buffer holds the text e
C20_Has(e) == \E j \in 1..(Len(buf) - Len(e) + 1) : SubSeq(buf, j, j + Len(e) - 1) = e

\* the BRG line the claim gives for the baud rate of the call
C20_Brg ==
    CASE args.baudrate = 500000 -> <<55, 10>>
      [] args.baudrate = 1000000 -> <<51, 10>>
      [] args.baudrate = 2000000 -> <<49, 10>>
      [] OTHER -> <<>>

\* the first six writes and reads of the call
C20_Neg == SubSeq(IO, 1, IF Len(IO) < 6 THEN Len(IO) ELSE 6)

C20_Refused == last.k = "R" /\ (last.n = 0 \/ last.err)

\* C20: the baud negotiation writes "b\n", then "10\n", then the BRG line
\* of the rate ("7\n" for 500000, "3\n" for 1000000, "1\n" for 2000000),
\* each at most once and each followed by one read; the second line is
\* written only after the first reply held "10. BRG raw value", the third
\* only after the second reply held "Enter raw value for BRG", and Open goes
\* on to SetBaudrate only after the third reply held "Space to continue".
\* After the first reply that is empty, failed or without the expected
\* text, Open has returned an error and nothing more was written.
C20_NegotiationInOrder ==
    (op = "Open" /\ args.baudrate # 115200) =>
        /\ IsPrefix(C20_Neg, <<<<"W", <<98, 10>>>>, <<"R", 151>>,
                               <<"W", <<49, 48, 10>>>>, <<"R", 33>>,
                               <<"W", C20_Brg>>, <<"R", 49>>>>)
        /\ Count(<<98, 10>>) <= 1 /\ Count(<<49, 48, 10>>) <= 1
        /\ Count(C20_Brg) <= 1
        /\ ((Len(IO) = 2 /\ pc # "done") \/ Len(IO) = 3) => C20_Has(expectBaudReply)
        /\ ((Len(IO) = 4 /\ pc # "done") \/ Len(IO) = 5) => C20_Has(brgReply)
        /\ (Len(IO) = 6 /\ pc # "done") => C20_Has(expectBrgValReply)
        /\ (Len(IO) = 2 /\ (C20_Refused \/ ~C20_Has(expectBaudReply)))
              => pc = "done" /\ ret = "err"
        /\ (Len(IO) = 4 /\ (C20_Refused \/ ~C20_Has(brgReply)))
              => pc = "done" /\ ret = "err"
        /\ (Len(IO) = 6 /\ (C20_Refused \/ ~C20_Has(expectBrgValReply)))
              => pc = "done" /\ ret = "err"

\* the three round trips were made and Open set the new baud rate
C20_Witness ==
    /\ op = "Open" /\ args.baudrate = 500000
    /\ \E j \in 1..Len(trace) : trace[j] = <<"B", 500000>>
    /\ C20_Neg = <<<<"W", <<98, 10>>>>, <<"R", 151>>, <<"W", <<49, 48, 10>>>>,
                   <<"R", 33>>, <<"W", <<55, 10>>>>, <<"R", 49>>>>

\* the second reply was read whole but is not the expected text
C20_WitnessUnmatched ==
    /\ Done("Open") /\ ret = "err" /\ Len(IO) = 4
    /\ last.k = "R" /\ last.n > 0 /\ ~last.err

----------------------------------------------------------------------------
(* C21 *)

\* the baud rate of the call cannot be honoured on this host
C21_Unsupported ==
    \/ args.baudrate \notin {115200, 500000, 1000000, 2000000}
    \/ args.baudrate = 2000000 /\ goos = "windows"

C21_WitnessInvalid ==
    Done("Open") /\ args.baudrate = 9600 /\ ret = "err" /\ trace = <<<<"O", 115200>>>>

----------------------------------------------------------------------------
(* C22 *)

\* the place of the first transport call e in the trace, 0 when there is none
Pos(e) ==
    IF \E j \in 1..Len(trace) : trace[j] = e
    THEN CHOOSE j \in 1..Len(trace) :
            trace[j] = e /\ \A k \in 1..(j - 1) : trace[k] # e
    ELSE 0

Switched == Pos(<<"B", args.baudrate>>) > 0

\* C22 as claimed: after the switch of the local rate Open writes the space
\* byte, then waits 10 ms, and only then sends the first 0x00 probe.
C22_SpaceThenWait ==
    (op = "Open" /\ args.baudrate # 115200 /\ Count(<<0>>) > 0) =>
        /\ 0 < Pos(<<"B", args.baudrate>>)
        /\ Pos(<<"B", args.baudrate>>) < Pos(<<"W", <<32>>>>)
        /\ Pos(<<"W", <<32>>>>) < Pos(<<"S", 10>>)
        /\ Pos(<<"S", 10>>) < Pos(<<"W", <<0>>>>)

\* C22 amended: with 115200 Open writes no console line, does not switch
\* the rate, sleeps and writes no space, and does not fail between opening
\* the port and the entry sequence. With another rate the order is: the
\* three round trips of the negotiation, the switch of the local rate, the
\* 10 ms sleep, one space byte 0x20, one read of up to 20 bytes, and only
\* then the first 0x00 probe. The rate is switched only after the third
\* reply of the negotiation held "Space to continue".
C22_SwitchWaitThenSpace ==
    op = "Open" =>
        /\ args.baudrate = 115200 =>
              /\ Count(<<98, 10>>) = 0 /\ Count(<<49, 48, 10>>) = 0
              /\ Count(<<32>>) = 0
              /\ \A j \in 1..Len(trace) : trace[j][1] \notin {"B", "S"}
              /\ (pc = "done" /\ ret = "err") => (trace = <<>> \/ Wrote)
        /\ Switched =>
              /\ Pos(<<"B", args.baudrate>>) = 11
              /\ Only(SubSeq(trace, 1, 10), {"W", "D", "R"}) =
                    <<<<"W", <<98, 10>>>>, <<"D">>, <<"R", 151>>,
                      <<"W", <<49, 48, 10>>>>, <<"D">>, <<"R", 33>>,
                      trace[8], <<"D">>, <<"R", 49>>>>
              /\ Pos(<<"F">>) = 0 => C20_Has(expectBrgValReply)
        /\ Count(<<32>>) <= 1
        /\ (args.baudrate # 115200 /\ Count(<<0>>) > 0) =>
              /\ 0 < Pos(<<"B", args.baudrate>>)
              /\ Pos(<<"B", args.baudrate>>) < Pos(<<"S", 10>>)
              /\ Pos(<<"S", 10>>) < Pos(<<"W", <<32>>>>)
              /\ Pos(<<"W", <<32>>>>) < Pos(<<"R", 20>>)
              /\ Pos(<<"R", 20>>) < Pos(<<"W", <<0>>>>)

\* Open at 1000000 baud has reached its first probe
C22_Witness ==
    /\ op = "Open" /\ args.baudrate = 1000000 /\ Count(<<0>>) = 1
    /\ Pos(<<"S", 10>>) = 12 /\ Pos(<<"W", <<32>>>>) = 13

\* Open at 115200 baud has reached its first probe
C22_WitnessDefault ==
    op = "Open" /\ args.baudrate = 115200 /\ Count(<<0>>) = 1 /\ Len(trace) = 4

----------------------------------------------------------------------------
(* C23 *)

\* C23: enterBinaryMode returns success only when one read delivered the
\* five bytes "BBIO1" without error; a read of one to four bytes never
\* counts as a match, whatever earlier attempts left in the buffer.
C23_MatchNeedsWholeRead ==
    (Done("Open") /\ ret = "ok") =>
        /\ last.k = "R" /\ last.n = 5 /\ ~last.err
        /\ first > 0

----------------------------------------------------------------------------
(* C24 *)

\* C24 as claimed: before the first 0x00 probe enterBinaryMode writes ten
\* newline bytes and then flushes the transport buffers.
C24_TenNewlinesThenFlush ==
    (op = "Open" /\ Count(<<0>>) > 0) =>
        /\ 0 < Pos(<<"W", <<10, 10, 10, 10, 10, 10, 10, 10, 10, 10>>>>)
        /\ Pos(<<"W", <<10, 10, 10, 10, 10, 10, 10, 10, 10, 10>>>>) < Pos(<<"F">>)
        /\ Pos(<<"F">>) < Pos(<<"W", <<0>>>>)

\* C24 amended: before the first 0x00 probe enterBinaryMode writes three
\* newline bytes in one write and then flushes the transport buffers, in
\* that order, once each and with nothing in between.
C24_ThreeNewlinesThenFlush ==
    op = "Open" =>
        /\ Count(<<10, 10, 10>>) <= 1
        /\ Cardinality({j \in 1..Len(trace) : trace[j] = <<"F">>}) <= 1
        /\ \A j \in 1..Len(trace) :
              (trace[j][1] = "W" /\ trace[j][2] # <<>> /\ trace[j][2][1] = 10)
                 => trace[j][2] = <<10, 10, 10>>
        /\ Pos(<<"F">>) > 0 => Pos(<<"F">>) = Pos(<<"W", <<10, 10, 10>>>>) + 1
        /\ Count(<<0>>) > 0 =>
              /\ Pos(<<"W", <<10, 10, 10>>>>) > 0
              /\ Pos(<<"W", <<0>>>>) = Pos(<<"F">>) + 1

\* the first probe was written right after the newlines and the flush
C24_Witness ==
    /\ op = "Open" /\ Count(<<0>>) = 1
    /\ SubSeq(trace, Len(trace) - 2, Len(trace)) =
          <<<<"W", <<10, 10, 10>>>>, <<"F">>, <<"W", <<0>>>>>>

----------------------------------------------------------------------------
(* C25 *)

NumWrites == Cardinality({j \in 1..Len(trace) : trace[j][1] = "W"})

NumDrains == Cardinality({j \in 1..Len(trace) : trace[j][1] = "D"})

C25_Ops ==
    {"PowerOn", "PowerOff", "SetPWM", "SpiEnter", "SpiLeave", "SpiCS",
     "SpiCfgPeriph", "SpiSpeed", "SpiCfg", "SpiSend", "SpiWriteRead",
     "LeaveBinaryMode"}

\* the number of requests of the call: one, but for SpiSend the command
\* and one per data byte, for SpiWriteRead the command, the two counts and
\* the out-data
C25_Requests ==
    CASE op = "SpiSend" -> 1 + Len(args.data)
      [] op = "SpiWriteRead" -> 4
      [] OTHER -> 1

\* the number of replies of the call
C25_Replies ==
    CASE op \in {"SpiLeave", "LeaveBinaryMode"} -> 0
      [] op = "SpiSend" -> 1 + Len(args.data)
      [] op = "SpiWriteRead" -> IF args.inCnt > 0 THEN 2 ELSE 1
      [] OTHER -> 1

\* C25: outside the entry loop no operation retries. In one call each
\* request is written at most once, drained at most once and its reply read
\* at most once, and a write, drain or read that failed (an error, or no
\* byte transferred) is the last transport call of the call apart from the
\* close of LeaveBinaryMode: the call has returned.
C25_NoRetry ==
    op \in C25_Ops =>
        /\ NumWrites <= C25_Requests
        /\ NumDrains <= NumWrites
        /\ NumReads <= C25_Replies
        /\ NumReads <= NumWrites
        /\ (last.k \in {"W", "D", "R"} /\ last.err) => pc = "done"
        /\ (last.k \in {"W", "R"} /\ last.n = 0) => pc = "done"

\* SpiSend returned after the read of its second data byte failed
C25_Witness ==
    /\ Done("SpiSend") /\ ret = "err" /\ Len(args.data) = 16
    /\ NumWrites = 3 /\ NumReads = 3 /\ last.k = "R" /\ last.n = 0

\* a write failed and nothing followed it
C25_WitnessWrite ==
    /\ Done("SpiCS") /\ ret = "err" /\ trace = <<<<"W", <<3>>>>>>
    /\ last.k = "W" /\ last.err

----------------------------------------------------------------------------
(* C26 *)

\* C26: every read is preceded by a drain of the most recent write: between
\* a write and the next read of a call there is a drain (and a drain that
\* fails ends the call), in the binary commands, in the negotiation and for
\* the space byte Open writes after the baud switch.
C26_DrainBeforeRead ==
    \A j \in 1..Len(trace) :
        trace[j][1] = "R" =>
            \A w \in 1..(j - 1) :
                trace[w][1] = "W" => \E d \in (w + 1)..(j - 1) : trace[d] = <<"D">>

----------------------------------------------------------------------------
(* C27 *)

\* a call on the open connection has returned after a read that delivered
\* nothing within its timeout
TimedOut == bp /\ pc = "done" /\ last.k = "R" /\ last.n = 0 /\ ~last.err

C27_WitnessTimeout == Done("SpiCS") /\ ret = "err" /\ TimedOut

----------------------------------------------------------------------------
(* C28 *)

\* a command has returned the error of one of its reads
C28_ReadFailed ==
    /\ pc = "done" /\ ret = "err" /\ last.k = "R"
    /\ op \in C25_Ops

\* the reply did not arrive within the wait
C28_Timeout == last.n = 0 /\ ~last.err

\* a reply arrived, with the wrong content or too short
C28_Mismatch == last.n > 0 /\ ~last.err

\* the errors returned for a reply of the wrong content or length: those
\* of the reads whose reply is looked at
C28_MismatchErrors ==
    {<<"SpiEnter", "read">>, <<"SpiCS", "read">>, <<"SpiCfgPeriph", "read">>,
     <<"SpiSpeed", "read">>, <<"SpiCfg", "read">>, <<"SpiSend", "read">>,
     <<"SpiWriteRead", "st_r">>, <<"SpiWriteRead", "in_r">>}

\* the methods whose replies are looked at
C28_CheckedOps == {"SpiEnter", "SpiCS", "SpiCfgPeriph", "SpiSpeed", "SpiCfg", "SpiWriteRead"}

\* C28 as claimed: the error returned for a reply that did not arrive in
\* time is of another kind than the error returned for a reply of the wrong
\* content or length.
C28_TimeoutDistinct ==
    (C28_ReadFailed /\ C28_Timeout) => msg \notin C28_MismatchErrors

\* C28 amended: the driver has no error kinds. Each read of a command has
\* one return statement, and the error it returns is the same for a reply
\* that did not arrive in time, a transport error and a reply of the wrong
\* content or length; a call that returns nil returns no error.
C28_OneErrorPerRead ==
    /\ (pc = "done" /\ ret = "ok") => msg = <<>>
    /\ (pc = "done" /\ ret = "err") => Len(msg) = 2 /\ msg[1] = op
    /\ (C28_ReadFailed /\ C28_Mismatch) => msg \in C28_MismatchErrors
    /\ (C28_ReadFailed /\ op \in C28_CheckedOps) => msg \in C28_MismatchErrors
    /\ (C28_ReadFailed /\ op = "SpiSend") =>
          msg = <<"SpiSend", IF NumReads = 1 THEN "read" ELSE "data_r">>

\* SpiCS returned its read error for a reply that did not arrive
C28_Witness ==
    C28_ReadFailed /\ C28_Timeout /\ msg = <<"SpiCS", "read">>

\* SpiCS returned the same error for a reply byte other than 0x01
C28_WitnessMismatch ==
    C28_ReadFailed /\ C28_Mismatch /\ msg = <<"SpiCS", "read">> /\ buf = <<0>>

----------------------------------------------------------------------------
(* C29 *)

C29_Ops ==
    {"SpiEnter", "SpiLeave", "SpiCS", "SpiCfgPeriph", "SpiSpeed", "SpiCfg",
     "SpiSend", "SpiWriteRead"}

\* the most recent transport call was a write that transferred no byte
C29_ZeroWrite == last.k = "W" /\ last.n = 0

C29_WitnessSend ==
    /\ Done("SpiSend") /\ ret = "err" /\ SendResult = <<>>
    /\ C29_ZeroWrite /\ ~last.err
    /\ NumWrites = 2

\* SpiLeave returned an error after a write of zero bytes
C29_WitnessLeave ==
    Done("SpiLeave") /\ ret = "err" /\ C29_ZeroWrite /\ ~last.err

----------------------------------------------------------------------------
(* C30 *)

\* C30: when enterBinaryMode (the last part of Open) or SpiLeave has
\* returned without an error, the device has sent nothing in answer to the
\* method's requests that the method did not read, so that the reads of the
\* next command take only the answer to its own request.
C30_NothingUnread ==
    (pc = "done" /\ ret = "ok" /\ op \in {"Open", "SpiLeave"}) => ~unread

----------------------------------------------------------------------------
(* C31 *)

\* the commands of SPI mode
C31_Ops ==
    {"SpiLeave", "SpiCS", "SpiWriteRead", "SpiSend", "SpiCfgPeriph", "SpiSpeed",
     "SpiCfg"}

\* the bytes the claim gives to each command
C31_Set(o) ==
    CASE o = "SpiLeave" -> {0}
      [] o = "SpiCS" -> {2, 3}
      [] o = "SpiWriteRead" -> {4}
      [] o = "SpiSend" -> 16..31
      [] o = "SpiCfgPeriph" -> 64..79
      [] o = "SpiSpeed" -> 96..103
      [] o = "SpiCfg" -> 128..143

\* the in-range arguments of each command
C31_ArgsOf(o) ==
    CASE o = "SpiLeave" -> {<<>>}
      [] o = "SpiCS" -> {[high |-> h] : h \in BOOLEAN}
      [] o = "SpiWriteRead" ->
            {[outData |-> Pattern(lo, 1), inCnt |-> li] :
                lo \in {0, 1, SmallLen}, li \in {0, 1, SmallLen}}
      [] o = "SpiSend" ->
            {[data |-> Pattern(l, base)] : l \in {1, SmallLen, 16}, base \in {1, 200}}
      [] o = "SpiCfgPeriph" ->
            {[power |-> w, pullups |-> x, aux |-> y, cs |-> z] :
                w \in BOOLEAN, x \in BOOLEAN, y \in BOOLEAN, z \in BOOLEAN}
      [] o = "SpiSpeed" -> {[speed |-> s] : s \in 0..7}
      [] o = "SpiCfg" ->
            {[output33v |-> w, idle |-> x, edge |-> y, sample |-> z] :
                w \in BOOLEAN, x \in BOOLEAN, y \in BOOLEAN, z \in BOOLEAN}

\* the first request byte the driver computes for command o with arguments a
C31_Byte(o, a) ==
    CASE o = "SpiLeave" -> resetBitbangMode
      [] o = "SpiCS" -> CSByte(a.high)
      [] o = "SpiWriteRead" -> spiWriteReadCmd
      [] o = "SpiSend" -> BulkByte(Len(a.data))
      [] o = "SpiCfgPeriph" -> PeriphByte(a.power, a.pullups, a.aux, a.cs)
      [] o = "SpiSpeed" -> SpeedByte(a.speed)
      [] o = "SpiCfg" -> CfgByte(a.output33v, a.idle, a.edge, a.sample)

\* what the first byte carries of the arguments: the length of the data of
\* SpiSend, nothing of SpiWriteRead, every argument of the other commands
C31_Carried(o, a) ==
    CASE o = "SpiSend" -> <<Len(a.data)>>
      [] o = "SpiWriteRead" -> <<>>
      [] OTHER -> <<a>>

\* a command of SPI mode has written its first request
C31_Written == op \in C31_Ops /\ trace # <<>>

\* the arguments of the running command are in range
C31_InRange == op = "SpiSpeed" => args.speed \in 0..7

\* the first byte the running command wrote
C31_First == trace[1][2][1]

\* C31 as claimed: the first request byte of a command of SPI mode lies in
\* the set of its command and in that of no other command, and no other
\* in-range arguments of the command give the same byte.
C31_ByteIdentifiesArguments ==
    C31_Written =>
        /\ \A o \in C31_Ops : C31_First \in C31_Set(o) <=> o = op
        /\ \A o \in C31_Ops : \A a \in C31_ArgsOf(o) :
              C31_Byte(o, a) = C31_First =>
                 /\ o = op
                 /\ C31_InRange => a = args

\* C31 amended: the first request of a command of SPI mode is one byte; it
\* lies in the set of its command and in that of no other command, whatever
\* the arguments; the byte sets are pairwise disjoint. Among in-range
\* arguments the byte determines the arguments of SpiCS, SpiCfgPeriph,
\* SpiSpeed and SpiCfg, only the length of the data of SpiSend, and nothing
\* of the arguments of SpiWriteRead.
C31_ByteIdentifiesCommand ==
    C31_Written =>
        /\ trace[1][1] = "W" /\ Len(trace[1][2]) = 1
        /\ \A o \in C31_Ops : C31_First \in C31_Set(o) <=> o = op
        /\ \A o1, o2 \in C31_Ops : o1 # o2 => C31_Set(o1) \cap C31_Set(o2) = {}
        /\ \A o \in C31_Ops : \A a \in C31_ArgsOf(o) :
              C31_Byte(o, a) = C31_First =>
                 /\ o = op
                 /\ C31_InRange => C31_Carried(o, a) = C31_Carried(op, args)
        /\ \A a \in C31_ArgsOf(op) :
              (C31_Carried(op, a) = C31_Carried(op, args)) => C31_Byte(op, a) = C31_First

\* SpiSend wrote 0x11 for two bytes of data that start with 200: the same
\* byte as for the two bytes that start with 1
C31_Witness ==
    /\ op = "SpiSend" /\ args.data = <<200, 201>>
    /\ C31_Written /\ trace[1] = <<"W", <<17>>>>
    /\ C31_Byte("SpiSend", [data |-> <<1, 2>>]) = 17

\* SpiCfg wrote 0x8F for four set flags
C31_WitnessCfg ==
    /\ op = "SpiCfg" /\ args.output33v /\ args.idle /\ args.edge /\ args.sample
    /\ C31_Written /\ trace[1] = <<"W", <<143>>>>

\* SpiWriteRead wrote 0x04 for one byte of data and two bytes to read
C31_WitnessWriteRead ==
    /\ op = "SpiWriteRead" /\ Len(args.outData) = 1 /\ args.inCnt = SmallLen
    /\ C31_Written /\ trace[1] = <<"W", <<4>>>>

====
